---------------------------- MODULE Spec2Model ----------------------------
(***************************************************************************)
(* The root command of crunchy-cli (cli/root.go): the persistent flags,    *)
(* the pre-run hook that selects the logger and builds the HTTP client,    *)
(* and Execute, which turns the outcome of the command tree into the       *)
(* process exit code.                                                      *)
(*                                                                         *)
(* Text is modelled as a sequence of words; a formatted line is the        *)
(* concatenation of the words of the format and of its arguments.          *)
(***************************************************************************)
EXTENDS Integers, Sequences, FiniteSets, TLC

(* ------------------------------ bounds --------------------------------- *)

\* longest error message a command returns, in words
MaxMsgLen == 3

\* largest number of positional arguments handed to the matched command
MaxArgs == 1

(* ------------------------------ inputs --------------------------------- *)

\* words an error message of a command is made of
Words == {"context", "canceled", "failed"}

\* context.Canceled.Error()
Canceled == <<"context", "canceled">>

\* the subcommands added to RootCmd
Commands == {"archive", "download", "info", "login", "update"}

\* values of --proxy: none, a well-formed proxy URL, a malformed one
Proxies == {"", "http://localhost:8080", "::not-a-url::"}

\* default of --useragent, and a value given on the command line
DefaultUseragent == "crunchy-cli/version"

Useragents == {DefaultUseragent, "curl/8"}

\* payloads of a panic (non-nil values)
Payloads == {"index out of range", "nil map"}

\* the error cobra returns when the command line does not parse
ParseErrors == {<<"unknown", "flag">>, <<"unknown", "command">>}

RECURSIVE SeqsUpTo(_)
SeqsUpTo(n) ==
    IF n = 0 THEN {<<>>}
    ELSE LET shorter == SeqsUpTo(n - 1)
         IN  shorter \cup {Append(s, w) : s \in {t \in shorter : Len(t) = n - 1}, w \in Words}

\* the messages a command's error can carry
Messages == SeqsUpTo(MaxMsgLen)

\* no command, no panic
Nil == "nil"

\* an error value: nil, or an error with the message Error() returns
NoError == [nil |-> TRUE, msg |-> <<>>]

ErrorOf(m) == [nil |-> FALSE, msg |-> m]

\* a nil *http.Client
NilClient == [nil |-> TRUE, proxy |-> "", useragent |-> ""]

(* ------------------------------- state --------------------------------- *)

VARIABLES
    quietFlag,      \* --quiet
    verboseFlag,    \* --verbose
    proxyFlag,      \* --proxy
    useragentFlag,  \* --useragent
    Log,            \* utils.Log
    Client,         \* utils.Client
    pc,             \* where Execute is
    seen,           \* flags of the command line parsed so far, in order
    cmd,            \* name of the matched command, Nil before it is matched
    nargs,          \* number of its arguments
    err,            \* error returned by RootCmd.Execute()
    panicked,       \* payload of the panic in flight, Nil when none
    recovered,      \* value recover() returned in the deferred function
    output,         \* lines written by the logger
    errCalls,       \* texts handed to Log.Err, written or not
    exitCode,       \* process exit code, -1 while running
    hookState,      \* "none", "ok", "err", "panic": how the pre-run hook ended
    bodyState,      \* "none", "ok", "err", "panic": how the command body ended
    loggersBuilt,   \* NewLogger calls so far
    logWrites,      \* assignments to utils.Log made by the pre-run hook
    clientWrites    \* assignments to utils.Client

flags == <<quietFlag, verboseFlag, proxyFlag, useragentFlag>>
shared == <<Log, Client>>
hist == <<hookState, bodyState, loggersBuilt, logWrites, clientWrites,
          recovered>>
vars == <<quietFlag, verboseFlag, proxyFlag, useragentFlag, Log, Client, pc,
          seen, cmd, nargs, err, panicked, recovered, output, errCalls,
          exitCode, hookState, bodyState, loggersBuilt, logWrites, clientWrites>>

(* ------------------------ logger and HTTP client ----------------------- *)

\* commands.NewLogger(debug, info, err); id tells the instances apart, dev is
\* the developer mode of the instance
NewLogger(d, i, e, dev, id) ==
    [id |-> id, debug |-> d, info |-> i, err |-> e, dev |-> dev]

IsDev(l) == l.dev

\* l.Debug(...) and l.Err(...): the line is written when the level is enabled
LogDebug(l, out, text) ==
    IF l.debug THEN Append(out, [level |-> "debug", text |-> text]) ELSE out

LogErr(l, out, text) ==
    IF l.err THEN Append(out, [level |-> "err", text |-> text]) ELSE out

ValidProxy(p) == p \in {"http://localhost:8080"}

ProxyError(p) == <<"parse", p, "invalid">>

\* utils.CreateOrDefaultClient(proxy, useragent): the client and the error
CreateOrDefaultClient(proxy, useragent) ==
    IF proxy = ""
    THEN [client |-> [nil |-> FALSE, proxy |-> "", useragent |-> useragent],
          err |-> NoError]
    ELSE IF ValidProxy(proxy)
    THEN [client |-> [nil |-> FALSE, proxy |-> proxy, useragent |-> useragent],
          err |-> NoError]
    ELSE [client |-> NilClient, err |-> ErrorOf(ProxyError(proxy))]

(* ------------------------------- Init ---------------------------------- *)

DefaultCfg == <<FALSE, TRUE, TRUE>>
VerboseCfg == <<TRUE, TRUE, TRUE>>
QuietCfg   == <<FALSE, FALSE, FALSE>>

\* func init(): flag defaults, utils.Log = commands.NewLogger(false, true, true)
Init ==
    /\ quietFlag = FALSE
    /\ verboseFlag = FALSE
    /\ proxyFlag = ""
    /\ useragentFlag = DefaultUseragent
    /\ \E dev \in BOOLEAN :
          Log = NewLogger(DefaultCfg[1], DefaultCfg[2], DefaultCfg[3], dev, 1)
    /\ Client = NilClient
    /\ pc = "parse"
    /\ seen = <<>>
    /\ cmd = Nil
    /\ nargs = 0
    /\ err = NoError
    /\ panicked = Nil
    /\ recovered = Nil
    /\ output = <<>>
    /\ errCalls = <<>>
    /\ exitCode = -1
    /\ hookState = "none"
    /\ bodyState = "none"
    /\ loggersBuilt = 1
    /\ logWrites = 0
    /\ clientWrites = 0

(* ---------------------- cobra: the command line ------------------------ *)

\* the flag was given on the command line (each flag is given at most once)
Parsed(f) == \E i \in 1..Len(seen) : seen[i] = f

\* BoolVarP(&quietFlag, "quiet", "q", false, ...)
ParseQuiet ==
    /\ pc = "parse"
    /\ ~Parsed("quiet")
    /\ quietFlag' = TRUE
    /\ seen' = Append(seen, "quiet")
    /\ UNCHANGED <<verboseFlag, proxyFlag, useragentFlag, Log, Client, pc, cmd,
                   nargs, err, panicked, output, errCalls, exitCode, hist>>

\* BoolVarP(&verboseFlag, "verbose", "v", false, ...)
ParseVerbose ==
    /\ pc = "parse"
    /\ ~Parsed("verbose")
    /\ verboseFlag' = TRUE
    /\ seen' = Append(seen, "verbose")
    /\ UNCHANGED <<quietFlag, proxyFlag, useragentFlag, Log, Client, pc, cmd,
                   nargs, err, panicked, output, errCalls, exitCode, hist>>

\* StringVarP(&proxyFlag, "proxy", "p", "", ...)
ParseProxy ==
    /\ pc = "parse"
    /\ ~Parsed("proxy")
    /\ \E p \in Proxies : proxyFlag' = p
    /\ seen' = Append(seen, "proxy")
    /\ UNCHANGED <<quietFlag, verboseFlag, useragentFlag, Log, Client, pc, cmd,
                   nargs, err, panicked, output, errCalls, exitCode, hist>>

\* StringVar(&useragentFlag, "useragent", "crunchy-cli/<version>", ...)
ParseUseragent ==
    /\ pc = "parse"
    /\ ~Parsed("useragent")
    /\ \E u \in Useragents : useragentFlag' = u
    /\ seen' = Append(seen, "useragent")
    /\ UNCHANGED <<quietFlag, verboseFlag, proxyFlag, Log, Client, pc, cmd,
                   nargs, err, panicked, output, errCalls, exitCode, hist>>

\* RootCmd.Execute() returns an error before any hook runs: the command line
\* names no flag or command of the tree
ParseFail ==
    /\ pc = "parse"
    /\ \E e \in ParseErrors : err' = ErrorOf(e)
    /\ pc' = "returned"
    /\ UNCHANGED <<flags, shared, seen, cmd, nargs, panicked, output, errCalls,
                   exitCode, hist>>

\* the command line names one of the commands added with RootCmd.AddCommand
MatchCommand ==
    /\ pc = "parse"
    /\ \E c \in Commands : cmd' = c
    /\ \E n \in 0..MaxArgs : nargs' = n
    /\ pc' = "prerun"
    /\ UNCHANGED <<flags, shared, seen, err, panicked, output, errCalls,
                   exitCode, hist>>

(* --------------------------- the pre-run hook -------------------------- *)

\* variant: quietFlag is tested first
LoggerSelection_QuietFirst(verbose, quiet) ==
    IF quiet THEN <<QuietCfg>>
    ELSE IF verbose THEN <<VerboseCfg>>
    ELSE <<>>

\* variant: a final else rebuilds the default logger
LoggerSelection_ElseDefault(verbose, quiet) ==
    IF verbose THEN <<VerboseCfg>>
    ELSE IF quiet THEN <<QuietCfg>>
    ELSE <<DefaultCfg>>

\* variant: two independent ifs instead of if / else if
LoggerSelection_TwoIfs(verbose, quiet) ==
    (IF verbose THEN <<VerboseCfg>> ELSE <<>>) \o (IF quiet THEN <<QuietCfg>> ELSE <<>>)

\* variant: the quiet logger keeps the error level
LoggerSelection_QuietKeepsErrors(verbose, quiet) ==
    IF verbose THEN <<VerboseCfg>>
    ELSE IF quiet THEN <<<<FALSE, FALSE, TRUE>>>>
    ELSE <<>>

\* if verboseFlag { NewLogger(true, true, true) } else if quietFlag {
\* NewLogger(false, false, false) }: the loggers the hook builds and assigns
\* to utils.Log, in order
LoggerSelection(verbose, quiet) ==
    IF verbose THEN <<VerboseCfg>>
    ELSE IF quiet THEN <<QuietCfg>>
    ELSE <<>>

\* utils.Log once the hook has made these assignments
SelectedLog(cur, sel, dev, built) ==
    IF sel = <<>> THEN cur
    ELSE LET c == sel[Len(sel)]
         IN  NewLogger(c[1], c[2], c[3], dev, built + Len(sel))

\* "Executing `%s` command with %d arg(s)"
DebugLine(c, n) == <<"Executing", c, "command with", ToString(n), "arg(s)">>

\* variant: the hook returns nil whatever CreateOrDefaultClient returned
PersistentPreRunE_DropsError ==
    /\ pc = "prerun"
    /\ \E dev \in BOOLEAN :
        LET sel  == LoggerSelection(verboseFlag, quietFlag)
            log  == SelectedLog(Log, sel, dev, loggersBuilt)
            made == CreateOrDefaultClient(proxyFlag, useragentFlag)
        IN  /\ Log' = log
            /\ loggersBuilt' = loggersBuilt + Len(sel)
            /\ logWrites' = logWrites + Len(sel)
            /\ output' = LogDebug(log, output, DebugLine(cmd, nargs))
            /\ Client' = made.client
            /\ clientWrites' = clientWrites + 1
            /\ err' = NoError
            /\ hookState' = "ok"
            /\ pc' = "run"
    /\ UNCHANGED <<flags, seen, cmd, nargs, panicked, errCalls, exitCode,
                   bodyState, recovered>>

\* PersistentPreRunE runs to its return
PersistentPreRunE ==
    /\ pc = "prerun"
    /\ \E dev \in BOOLEAN :
        LET sel  == LoggerSelection(verboseFlag, quietFlag)
            log  == SelectedLog(Log, sel, dev, loggersBuilt)
            made == CreateOrDefaultClient(proxyFlag, useragentFlag)
        IN  /\ Log' = log
            /\ loggersBuilt' = loggersBuilt + Len(sel)
            /\ logWrites' = logWrites + Len(sel)
            /\ output' = LogDebug(log, output, DebugLine(cmd, nargs))
            /\ Client' = made.client
            /\ clientWrites' = clientWrites + 1
            /\ err' = made.err
            /\ hookState' = IF made.err.nil THEN "ok" ELSE "err"
            /\ pc' = IF made.err.nil THEN "run" ELSE "returned"
    /\ UNCHANGED <<flags, seen, cmd, nargs, panicked, errCalls, exitCode,
                   bodyState, recovered>>

\* a panic raised while the hook builds the logger: utils.Log is not assigned
PreRunPanicInNewLogger ==
    /\ pc = "prerun"
    /\ LoggerSelection(verboseFlag, quietFlag) # <<>>
    /\ \E r \in Payloads : panicked' = r
    /\ hookState' = "panic"
    /\ pc' = "panicking"
    /\ UNCHANGED <<flags, shared, seen, cmd, nargs, err, output, errCalls,
                   exitCode, bodyState, loggersBuilt, logWrites, clientWrites,
                   recovered>>

\* a panic raised while the hook builds the client: utils.Log is assigned and
\* the debug line written, utils.Client is not assigned
PreRunPanicInClient ==
    /\ pc = "prerun"
    /\ \E dev \in BOOLEAN :
        LET sel == LoggerSelection(verboseFlag, quietFlag)
            log == SelectedLog(Log, sel, dev, loggersBuilt)
        IN  /\ Log' = log
            /\ loggersBuilt' = loggersBuilt + Len(sel)
            /\ logWrites' = logWrites + Len(sel)
            /\ output' = LogDebug(log, output, DebugLine(cmd, nargs))
    /\ \E r \in Payloads : panicked' = r
    /\ hookState' = "panic"
    /\ pc' = "panicking"
    /\ UNCHANGED <<flags, Client, seen, cmd, nargs, err, errCalls, exitCode,
                   bodyState, clientWrites, recovered>>

(* --------------------------- the command body -------------------------- *)

\* the matched command completes
RunOk ==
    /\ pc = "run"
    /\ bodyState' = "ok"
    /\ pc' = "returned"
    /\ UNCHANGED <<flags, shared, seen, cmd, nargs, err, panicked, output,
                   errCalls, exitCode, hookState, loggersBuilt, logWrites,
                   clientWrites, recovered>>

\* the matched command returns an error
RunErr ==
    /\ pc = "run"
    /\ \E m \in Messages : err' = ErrorOf(m)
    /\ bodyState' = "err"
    /\ pc' = "returned"
    /\ UNCHANGED <<flags, shared, seen, cmd, nargs, panicked, output,
                   errCalls, exitCode, hookState, loggersBuilt, logWrites,
                   clientWrites, recovered>>

\* the matched command panics
RunPanic ==
    /\ pc = "run"
    /\ \E r \in Payloads : panicked' = r
    /\ bodyState' = "panic"
    /\ pc' = "panicking"
    /\ UNCHANGED <<flags, shared, seen, cmd, nargs, err, output, errCalls,
                   exitCode, hookState, loggersBuilt, logWrites, clientWrites,
                   recovered>>

(* ------------------------------- Execute ------------------------------- *)

\* strings.HasSuffix(s, suffix)
HasSuffix(s, suffix) ==
    /\ Len(s) >= Len(suffix)
    /\ SubSeq(s, Len(s) - Len(suffix) + 1, Len(s)) = suffix

\* variant: the message is compared with the marker, not its suffix
IsCancellation_Exact(e) == e = Canceled

\* strings.HasSuffix(err.Error(), context.Canceled.Error())
IsCancellation(e) == HasSuffix(e, Canceled)

\* variant: the format has no verb for the error
ErrorLine_NoMessage(e) == <<"An error occurred:">>

\* "An error occurred: %v"
ErrorLine(e) == <<"An error occurred:">> \o e

\* debug.Stack()
Stack == "goroutine 1 [running]"

\* variant: the branches of the IsDev test are swapped
PanicLine_Inverted(l, r) ==
    IF ~l.dev THEN <<r, ":", Stack>>
    ELSE <<"Unexpected error:", r>>

\* the text the deferred function hands to utils.Log.Err
PanicLine(l, r) ==
    IF IsDev(l) THEN <<r, ":", Stack>>
    ELSE <<"Unexpected error:", r>>

\* the texts the error branch hands to utils.Log.Err
ErrorBranchLines(e) ==
    IF ~IsCancellation(e) THEN <<ErrorLine(e)>> ELSE <<>>

RECURSIVE LogErrAll(_, _, _)
LogErrAll(l, out, texts) ==
    IF texts = <<>> THEN out
    ELSE LogErrAll(l, LogErr(l, out, Head(texts)), Tail(texts))

\* variant: os.Exit(1) sits inside the inner if, so a cancellation returns
ExecuteError_ExitInsideIf ==
    /\ pc = "returned"
    /\ ~err.nil
    /\ errCalls' = errCalls \o ErrorBranchLines(err.msg)
    /\ output' = LogErrAll(Log, output, ErrorBranchLines(err.msg))
    /\ exitCode' = IF ErrorBranchLines(err.msg) # <<>> THEN 1 ELSE 0
    /\ pc' = "exited"
    /\ UNCHANGED <<flags, shared, seen, cmd, nargs, err, panicked, hist>>

\* if err := RootCmd.Execute(); err != nil { ...; os.Exit(1) }
ExecuteError ==
    /\ pc = "returned"
    /\ ~err.nil
    /\ errCalls' = errCalls \o ErrorBranchLines(err.msg)
    /\ output' = LogErrAll(Log, output, ErrorBranchLines(err.msg))
    /\ exitCode' = 1
    /\ pc' = "exited"
    /\ UNCHANGED <<flags, shared, seen, cmd, nargs, err, panicked, hist>>

\* RootCmd.Execute() returned nil: Execute returns, recover() yields nil
ExecuteReturn ==
    /\ pc = "returned"
    /\ err.nil
    /\ exitCode' = 0
    /\ pc' = "exited"
    /\ UNCHANGED <<flags, shared, seen, cmd, nargs, err, panicked, output,
                   errCalls, hist>>

\* variant: the deferred function ends with panic(r) instead of os.Exit(1)
ExecuteRecover_Rethrows ==
    /\ pc = "panicking"
    /\ panicked # Nil
    /\ errCalls' = Append(errCalls, PanicLine(Log, panicked))
    /\ output' = LogErr(Log, output, PanicLine(Log, panicked))
    /\ recovered' = panicked
    /\ pc' = "crashed"
    /\ exitCode' = 2
    /\ UNCHANGED <<flags, shared, seen, cmd, nargs, err, panicked, hookState,
                   bodyState, loggersBuilt, logWrites, clientWrites>>

\* defer func() { if r := recover(); r != nil { ...; os.Exit(1) } }()
ExecuteRecover ==
    /\ pc = "panicking"
    /\ panicked # Nil
    /\ errCalls' = Append(errCalls, PanicLine(Log, panicked))
    /\ output' = LogErr(Log, output, PanicLine(Log, panicked))
    /\ recovered' = panicked
    /\ panicked' = Nil
    /\ exitCode' = 1
    /\ pc' = "exited"
    /\ UNCHANGED <<flags, shared, seen, cmd, nargs, err, hookState, bodyState,
                   loggersBuilt, logWrites, clientWrites>>

Next ==
    \/ ParseQuiet
    \/ ParseVerbose
    \/ ParseProxy
    \/ ParseUseragent
    \/ ParseFail
    \/ MatchCommand
    \/ PersistentPreRunE
    \/ PreRunPanicInNewLogger
    \/ PreRunPanicInClient
    \/ RunOk
    \/ RunErr
    \/ RunPanic
    \/ ExecuteError
    \/ ExecuteReturn
    \/ ExecuteRecover

Spec == Init /\ [][Next]_vars

\* the process has one goroutine here, which runs until it exits
FairSpec == Spec /\ WF_vars(Next)

TypeOK ==
    /\ quietFlag \in BOOLEAN /\ verboseFlag \in BOOLEAN
    /\ proxyFlag \in Proxies /\ useragentFlag \in Useragents
    /\ pc \in {"parse", "prerun", "run", "returned", "panicking", "exited"}
    /\ exitCode \in {-1, 0, 1}

(* ----------------------------- properties ------------------------------ *)

\* the message ends with the words of context.Canceled
EndsWithMarker(m) ==
    /\ Len(m) >= 2
    /\ m[Len(m) - 1] = "context"
    /\ m[Len(m)] = "canceled"

IsErrorOccurred(l) == l.text[1] = "An error occurred:"

IsErrLevel(l) == l.level = "err"

\* the "An error occurred" lines written so far
ErrorOccurredLines == SelectSeq(output, IsErrorOccurred)

\* the lines written at error level so far
ErrLines == SelectSeq(output, IsErrLevel)

HasStack(t) == \E i \in 1..Len(t) : t[i] = Stack

\* the line Execute writes for the error the command tree returned
ExpectedErrorLine ==
    [level |-> "err", text |-> <<"An error occurred:">> \o err.msg]

\* the hook has replaced the logger by the quiet one
QuietInstalled == quietFlag /\ ~verboseFlag /\ logWrites >= 1

\* the invocation failed: an error was returned or a panic was raised
Failed == ~err.nil \/ hookState = "panic" \/ bodyState = "panic"

\* C1: when the command tree returns an error whose message ends with the
\* cancellation marker, the process exits with code 1 and nothing is handed
\* to the error log, so no "An error occurred" line is written, whatever the
\* logger is.
C1_CancellationSilent ==
    (pc = "exited" /\ ~err.nil /\ EndsWithMarker(err.msg)) =>
        /\ exitCode = 1
        /\ errCalls = <<>>
        /\ ErrorOccurredLines = <<>>

C1_Witness ==
    /\ pc = "exited"
    /\ bodyState = "err"
    /\ err.msg = <<"failed", "context", "canceled">>
    /\ Log.err
    /\ exitCode = 1

\* C2 as stated: when a subcommand returns an error whose message does not
\* end with the cancellation marker, the process exits with code 1 and
\* exactly one "An error occurred: <message>" line is written, for every
\* combination of --quiet and --verbose.
C2_Original ==
    (pc = "exited" /\ bodyState = "err" /\ ~EndsWithMarker(err.msg)) =>
        /\ exitCode = 1
        /\ ErrorOccurredLines = <<ExpectedErrorLine>>

\* C2 amended: when a subcommand returns an error whose message does not end
\* with the cancellation marker, the process exits with code 1 and exactly
\* one "An error occurred: <message>" text is handed to the error log; it is
\* written as exactly one line unless --quiet is set without --verbose, and
\* then no line is written.
C2_ErrorLine ==
    (pc = "exited" /\ bodyState = "err" /\ ~EndsWithMarker(err.msg)) =>
        /\ exitCode = 1
        /\ errCalls = <<ExpectedErrorLine.text>>
        /\ ErrorOccurredLines =
              IF quietFlag /\ ~verboseFlag THEN <<>> ELSE <<ExpectedErrorLine>>

C2_Witness ==
    /\ pc = "exited"
    /\ bodyState = "err"
    /\ err.msg = <<"context", "canceled", "failed">>
    /\ quietFlag /\ verboseFlag
    /\ Len(output) = 2
    /\ output[2] = ExpectedErrorLine

\* C3: a panic of the pre-run hook or of the command is recovered by the
\* deferred function of Execute: the process exits with code 1, no panic is
\* left in flight, and the one text handed to the error log contains the
\* stack trace when the logger is in developer mode and is exactly
\* "Unexpected error: P", without stack trace, otherwise.
C3_PanicRecovered ==
    (hookState = "panic" \/ bodyState = "panic") =>
        /\ pc \in {"panicking", "exited"}
        /\ pc = "panicking" => panicked \in Payloads
        /\ pc = "exited" =>
            /\ exitCode = 1
            /\ panicked = Nil
            /\ recovered \in Payloads
            /\ Len(errCalls) = 1
            /\ IsDev(Log) => HasStack(errCalls[1]) /\ errCalls[1][1] = recovered
            /\ ~IsDev(Log) => /\ errCalls[1] = <<"Unexpected error:", recovered>>
                              /\ ~HasStack(errCalls[1])
            /\ \A i \in 1..Len(ErrLines) : ErrLines[i].text = errCalls[1]
            /\ Len(ErrLines) <= 1

C3_Witness ==
    /\ pc = "exited"
    /\ bodyState = "panic"
    /\ IsDev(Log)
    /\ Len(output) >= 1
    /\ HasStack(output[Len(output)].text)
    /\ exitCode = 1

\* C4: when the hook builds the client from an invalid proxy URL, the
\* construction fails, the hook returns the error, utils.Client is nil, no
\* command body runs and the process exits with code 1.
C4_InvalidProxy ==
    (clientWrites >= 1 /\ proxyFlag \notin {"", "http://localhost:8080"}) =>
        /\ hookState = "err"
        /\ ~err.nil
        /\ Client.nil
        /\ bodyState = "none"
        /\ pc \in {"returned", "exited"}
        /\ pc = "exited" => exitCode = 1

C4_Witness ==
    /\ pc = "exited"
    /\ proxyFlag = "::not-a-url::"
    /\ hookState = "err"
    /\ bodyState = "none"
    /\ exitCode = 1

C6_VerboseWins ==
    (quietFlag /\ verboseFlag /\ hookState \in {"ok", "err"}) =>
        Log.debug /\ Log.info /\ Log.err

C6_Witness ==
    /\ seen = <<"proxy", "verbose", "useragent", "quiet">>
    /\ proxyFlag = "http://localhost:8080"
    /\ useragentFlag = "curl/8"
    /\ hookState = "ok"
    /\ Log.debug /\ Log.info /\ Log.err
    /\ pc = "exited"
    /\ exitCode = 0

\* C7: when neither --quiet nor --verbose is set, utils.Log is the instance
\* built by init (info and error enabled, debug disabled) during and after
\* the pre-run hook: the hook builds no logger and writes no debug line.
C7_DefaultKept ==
    (~quietFlag /\ ~verboseFlag) =>
        /\ Log.id = 1
        /\ ~Log.debug /\ Log.info /\ Log.err
        /\ logWrites = 0
        /\ loggersBuilt = 1
        /\ \A i \in 1..Len(output) : output[i].level # "debug"

C7_Witness ==
    /\ ~quietFlag /\ ~verboseFlag
    /\ hookState = "ok"
    /\ pc = "run"
    /\ Log.id = 1

\* C8 as stated: in every invocation the logger and the client are each
\* configured exactly once, by the pre-run hook, and exactly one logger
\* instance exists.
C8_Original ==
    pc = "exited" => logWrites = 1 /\ clientWrites = 1 /\ loggersBuilt = 1

\* C8 amended: utils.Log is built by init and replaced at most once, by the
\* pre-run hook (exactly when --verbose or --quiet is set); utils.Client is
\* assigned at most once, by the pre-run hook; every such write happens
\* before any command body runs and none happens afterwards, and a command
\* body runs only after the client was assigned.
C8_WriteOnce ==
    [][ /\ (\/ Log' # Log \/ Client' # Client
            \/ logWrites' # logWrites \/ clientWrites' # clientWrites
            \/ loggersBuilt' # loggersBuilt) =>
               /\ pc = "prerun"
               /\ bodyState = "none" /\ bodyState' = "none"
               /\ logWrites = 0 /\ clientWrites = 0
               /\ logWrites' = (IF verboseFlag \/ quietFlag THEN 1 ELSE 0)
               /\ clientWrites' <= 1
               /\ loggersBuilt' = 1 + logWrites'
        /\ bodyState' # "none" => clientWrites' = 1
      ]_vars

C8_Witness ==
    /\ pc = "exited"
    /\ bodyState = "ok"
    /\ logWrites = 1
    /\ clientWrites = 1
    /\ loggersBuilt = 2
    /\ Log.id = 2

\* C9 as stated: every failing path other than cancellation is made
\* observable by a logged line before the exit.
C9_Original ==
    (pc = "exited" /\ Failed /\ ~(~err.nil /\ EndsWithMarker(err.msg))) =>
        /\ Len(output) >= 1
        /\ output[Len(output)].level = "err"

\* C9 amended: every path through Execute ends in a controlled termination,
\* with exit code 0 or 1 and never a crash; every failing path other than
\* cancellation hands exactly one text to the error log before the exit,
\* and that text is the last line written unless the hook installed the
\* quiet logger.
C9_ControlledExit ==
    /\ <>(pc = "exited")
    /\ [](pc \in {"parse", "prerun", "run", "returned", "panicking", "exited"})
    /\ [](pc = "exited" =>
            /\ exitCode \in {0, 1}
            /\ exitCode = 1 <=> Failed
            /\ (Failed /\ ~(~err.nil /\ EndsWithMarker(err.msg))) =>
                /\ Len(errCalls) = 1
                /\ ~QuietInstalled =>
                    /\ Len(output) >= 1
                    /\ output[Len(output)] =
                          [level |-> "err", text |-> errCalls[1]])

C9_Witness ==
    /\ pc = "exited"
    /\ hookState = "panic"
    /\ exitCode = 1
    /\ Len(errCalls) = 1
    /\ Len(output) >= 1
    /\ output[Len(output)].level = "err"

\* C10: once the hook has replaced the logger because --quiet is set and
\* --verbose is not, the logger has debug, info and error disabled for the
\* rest of the invocation and no line is written at all, while a client
\* construction error, a command error or a recovered panic still ends the
\* process with exit code 1.
C10_QuietSilent ==
    QuietInstalled =>
        /\ ~Log.debug /\ ~Log.info /\ ~Log.err
        /\ output = <<>>
        /\ (pc = "exited" /\ Failed) => exitCode = 1

C10_Witness ==
    /\ quietFlag /\ ~verboseFlag
    /\ pc = "exited"
    /\ hookState = "err"
    /\ Len(errCalls) = 1
    /\ output = <<>>
    /\ exitCode = 1

=============================================================================
